---- MODULE Spec2Model ----
(***************************************************************************)
(* Ancestors.compute of wot/ot/ancestors.py as a state machine.            *)
(*                                                                         *)
(* Numbers.  A numpy vector is a record [num, den]: entry i has the value  *)
(* num[i] / den.  den = 0 stands for a vector whose entries are all NaN    *)
(* (the result of 0/0 in `v /= v.sum()`).  Maps have non-negative integer  *)
(* entries, so every value the walk computes is an exact rational.         *)
(*                                                                         *)
(* Python's None is the integer None (-1) for the two anchor indices and   *)
(* the field some = FALSE for the optional tables.  Positions              *)
(* (transport_index, t1_index, sampled indices, get_indexer results) are   *)
(* 0-based as in the code; TLA+ sequences are 1-based, so element p of an  *)
(* array is s[p + 1].                                                      *)
(***************************************************************************)
EXTENDS Integers, Sequences, FiniteSets, TLC

\* Bounds of the explored inputs.
MaxChain == 2
MaxCells == 2
MaxSets == 2
MaxWide == 5
MaxSeed == 1

\* calls of Ancestors.compute made on one chain
MaxCalls == 2

None == -1

(***************************************************************************)
(* Arithmetic helpers                                                      *)
(***************************************************************************)
RECURSIVE Sum(_)
Sum(s) == IF s = <<>> THEN 0 ELSE Head(s) + Sum(Tail(s))

RECURSIVE Gcd(_, _)
Gcd(a, b) == IF b = 0 THEN a ELSE Gcd(b, a % b)

RECURSIVE GcdSeq(_)
GcdSeq(s) == IF s = <<>> THEN 0 ELSE Gcd(Head(s), GcdSeq(Tail(s)))

RECURSIVE Pow(_, _)
Pow(b, e) == IF e = 0 THEN 1 ELSE b * Pow(b, e - 1)

RECURSIVE Prod(_)
Prod(s) == IF s = <<>> THEN 1 ELSE Head(s) * Prod(Tail(s))

Range(s) == {s[i] : i \in DOMAIN s}

\* range(a, b): a, a+1, ..., b-1
RangeUp(a, b) == [i \in 1..(IF b > a THEN b - a ELSE 0) |-> a + i - 1]

\* range(a, -1, -1): a, a-1, ..., 0
RangeDown(a) == [i \in 1..(a + 1) |-> a - i + 1]

\* index.get_indexer_for(target): for each element of target its 0-based
\* position in index, -1 when index does not hold it (ids are unique).
get_indexer_for(index, target) ==
    [i \in 1..Len(target) |->
        IF \E p \in 1..Len(index) : index[p] = target[i]
        THEN (CHOOSE p \in 1..Len(index) : index[p] = target[i]) - 1
        ELSE -1]

\* numpy / iloc fancy indexing arr[order] raises IndexError when a position
\* is outside -len..len-1.
IndexOutOfBounds(order, len) ==
    \E i \in 1..Len(order) : order[i] >= len \/ order[i] < 0 - len

\* arr[order] for positions in bounds; a negative position counts from the end.
Take(arr, order) ==
    [i \in 1..Len(order) |->
        arr[(IF order[i] < 0 THEN order[i] + Len(arr) ELSE order[i]) + 1]]

\* index.isin(ids): boolean membership array over index
isin(index, ids) == [i \in 1..Len(index) |-> IF index[i] \in Range(ids) THEN 1 ELSE 0]

(***************************************************************************)
(* Vectors                                                                 *)
(***************************************************************************)
IsNaN(v) == v.den = 0

\* tmap.x.dot(v): v over the map's columns, the result over its rows
DotBack(x, v) ==
    [num |-> [i \in 1..Len(x) |-> Sum([j \in 1..Len(v.num) |-> x[i][j] * v.num[j]])],
     den |-> v.den]

\* v.dot(tmap.x): v over the map's rows, the result over its columns
DotFwd(x, v) ==
    [num |-> [j \in 1..Len(x[1]) |-> Sum([i \in 1..Len(v.num) |-> v.num[i] * x[i][j]])],
     den |-> v.den]

\* a division guarded against a zero sum by falling back to the uniform vector
NormalizeOrUniform(v) ==
    IF v.den = 0 \/ Sum(v.num) = 0
    THEN [num |-> [i \in 1..Len(v.num) |-> 1], den |-> Len(v.num)]
    ELSE LET g == GcdSeq(v.num)
         IN  [num |-> [i \in 1..Len(v.num) |-> v.num[i] \div g],
              den |-> Sum(v.num) \div g]

\* v /= v.sum(): 0/0 is NaN, NaN stays NaN; otherwise entry i becomes
\* (num[i]/den) / (Sum(num)/den) = num[i] / Sum(num), kept in lowest terms.
Normalize(v) ==
    IF v.den = 0 \/ Sum(v.num) = 0
    THEN [num |-> [i \in 1..Len(v.num) |-> 0], den |-> 0]
    ELSE LET g == GcdSeq(v.num)
         IN  [num |-> [i \in 1..Len(v.num) |-> v.num[i] \div g],
              den |-> Sum(v.num) \div g]

Support(v) == {i \in 1..Len(v.num) : v.num[i] > 0}

\* v is uniform over its support: every positive entry is 1/|support|
IsUniform(v) == \A i \in Support(v) : v.num[i] * Cardinality(Support(v)) = v.den

\* exp(H(v)) <= k for a normalized v with entries n_i/d:
\*   prod (d/n_i)^(n_i/d) <= k   iff   d^d <= k^d * prod n_i^(n_i)
PerplexityLeq(v, k) ==
    Pow(v.den, v.den) <=
        Pow(k, v.den) * Prod([i \in 1..Len(v.num) |-> Pow(v.num[i], v.num[i])])

\* ceil(exp(H(v))) in exact arithmetic
ExactCeil(v) ==
    CHOOSE k \in 1..Len(v.num) :
        /\ PerplexityLeq(v, k)
        /\ \A m \in 1..(k - 1) : ~PerplexityLeq(v, m)

\* The support sizes m for which the IEEE-754 double evaluation of
\* np.exp(scipy.stats.entropy(v)) on m equal entries 1/m comes out above m
\* (5.000000000000001 for m = 5, 7.000000000000004 for m = 7), so that
\* np.ceil gives m + 1.  For m = 1, 2, 3, 4, 6, 8 the double result is <= m.
RoundsAbove == {5, 7}

\* int(np.ceil(np.exp(scipy.stats.entropy(v)))) for a normalized v
n_choose_of(v) ==
    IF IsUniform(v) /\ Cardinality(Support(v)) \in RoundsAbove
    THEN Cardinality(Support(v)) + 1
    ELSE ExactCeil(v)

\* np.random.choice(len(v), k, p=v, replace=True): k positions, each of
\* positive probability, a function of the generator's state g.
RandomChoice(v, k, g) ==
    LET sup == Support(v)
        nth(r) == CHOOSE i \in sup : Cardinality({j \in sup : j < i}) = r
    IN  [i \in 1..k |-> nth((g + i - 1) % Cardinality(sup)) - 1]

(***************************************************************************)
(* Inputs: the arguments of compute                                        *)
(***************************************************************************)
MapKinds == {"ones", "corner", "last", "skew"}

\* a coupling matrix with non-negative entries, nr rows and nc columns
Matrix(kind, nr, nc) ==
    [i \in 1..nr |-> [j \in 1..nc |->
        CASE kind = "ones" -> 1
          [] kind = "corner" -> IF i = 1 /\ j = 1 THEN 1 ELSE 0
          [] kind = "last" -> IF i = nr /\ j = nc THEN 1 ELSE 0
          [] OTHER -> IF i = 1 THEN 2 ELSE 1]]

\* the id of cell j of the population observed at time t
CellId(t, j) == 10 * t + j

Axis(t, n, shift) == [j \in 1..n |-> CellId(t, j + shift)]

\* transport_maps[k]: times t1 = k < t2 = k + 1, row ids, column ids, matrix,
\* and whether the entry already holds its loaded dataset ('ds')
MkMap(k, kind, n, shift) ==
    [t1 |-> k, t2 |-> k + 1, rows |-> Axis(k, n, 0), cols |-> Axis(k + 1, n, shift),
     x |-> Matrix(kind, n, n), ds |-> FALSE]

Chains(n, maxlen, kinds, shifts) ==
    UNION {{[k \in 0..(len - 1) |-> MkMap(k, ks[k + 1], n, s)] :
                ks \in [1..len -> kinds], s \in shifts} : len \in 1..maxlen}

ChainLen(maps) == Cardinality(DOMAIN maps)

SetKinds == <<"empty", "first", "mid", "extra">>

\* the member cells of a named cell set at time t, n cells per map axis
Members(name, t, n) ==
    CASE name = "first" -> {CellId(t, 1)}
      [] name = "mid" -> {CellId(t, n)}
      [] name = "extra" -> {CellId(t, n + 1)}
      [] OTHER -> {}

\* cell_set_ds: rows are the cells at the anchor time, columns the named sets;
\* x[c][r] > 0 when cell r belongs to set c
MkCellSets(names, t, n) ==
    [rows |-> Axis(t, n + 1, 0), cols |-> names,
     x |-> [c \in 1..Len(names) |-> [r \in 1..(n + 1) |->
              IF CellId(t, r) \in Members(names[c], t, n) THEN 1 ELSE 0]]]

\* sequences of distinct set names, at most max of them
NameSeqs(max) ==
    UNION {{s \in [1..len -> Range(SetKinds)] :
                \A i, j \in 1..len : i # j => s[i] # s[j]} : len \in 0..max}

AllIds(len, n) == [p \in 1..((len + 1) * (n + 1)) |->
                      CellId((p - 1) \div (n + 1), ((p - 1) % (n + 1)) + 1)]

Reverse(s) == [i \in 1..Len(s) |-> s[Len(s) - i + 1]]

\* the row ids of an auxiliary table
AuxIds(kind, len, n) ==
    CASE kind = "full" -> AllIds(len, n)
      [] kind = "rev" -> Reverse(AllIds(len, n))
      [] OTHER -> <<CellId(0, n)>>

\* unaligned_ds: one measured gene "g"; the value of a cell is its id
MkDataset(ids) == [rows |-> ids, cols |-> <<"g">>, x |-> [r \in 1..Len(ids) |-> <<ids[r]>>]]

\* unaligned_gene_set_scores: one gene set "s"; the score of a cell is 100 + id
MkScores(ids) == [rows |-> ids, cols |-> <<"s">>, x |-> [r \in 1..Len(ids) |-> <<100 + ids[r]>>]]

VARIABLES
    transport_maps, cell_set_ds_in, time, unaligned_ds, unaligned_gene_set_scores,
    sampling_loader, rng,
    cell_set_ds,
    pc, err, result,
    t1_index, t2_index, ranges, r_pos, i_pos,
    n_cell_sets, pvec_array, new_pvec_array, cell_set_index,
    tmap, ds, gene_set_scores, sampled_indices,
    traces, pvecs, vanished,
    calls, read_log

vars == <<transport_maps, cell_set_ds_in, cell_set_ds, time, unaligned_ds, unaligned_gene_set_scores,
          sampling_loader, rng, pc, err, result, t1_index, t2_index, ranges, r_pos,
          i_pos, n_cell_sets, pvec_array, new_pvec_array, cell_set_index, tmap, ds,
          gene_set_scores, sampled_indices, traces, pvecs, vanished, calls, read_log>>

\* cell_set_ds_in is the cell-set matrix the caller passes; cell_set_ds is the
\* function's own name for it, which line 243 rebinds to the kept sets.
\* vanished collects the (walk, cell set) pairs whose propagated vector had
\* total mass zero.
\* calls counts the calls of compute made on the chain so far; read_log counts,
\* per chain index, the read_dataset calls of line 194 (reads) and the visits
\* that found a stored matrix at line 190 (hits).
inputs == <<transport_maps, cell_set_ds_in, cell_set_ds, time, unaligned_ds,
            unaligned_gene_set_scores, sampling_loader, rng>>

(***************************************************************************)
(* Tables: a Dataset / DataFrame with a row index.  some = FALSE is None.  *)
(***************************************************************************)
NoTable == [some |-> FALSE, rows |-> <<>>, cols |-> <<>>, x |-> <<>>]

Table(t) == [some |-> TRUE, rows |-> t.rows, cols |-> t.cols, x |-> t.x]

\* the placeholder pandas puts in a row of an id the table does not hold
NaN == -2

NoIndices == [some |-> FALSE, idx |-> <<>>]

AuxDataset(kind, len, n) ==
    IF kind = "none" THEN NoTable ELSE Table(MkDataset(AuxIds(kind, len, n)))

AuxScores(kind, len, n) ==
    IF kind = "none" THEN NoTable ELSE Table(MkScores(AuxIds(kind, len, n)))

InitLocals ==
    /\ cell_set_ds = cell_set_ds_in
    /\ pc = "start" /\ err = "none" /\ result = [some |-> FALSE]
    /\ t1_index = None /\ t2_index = None
    /\ ranges = <<>> /\ r_pos = 1 /\ i_pos = 1
    /\ n_cell_sets = 0 /\ pvec_array = <<>> /\ new_pvec_array = <<>>
    /\ cell_set_index = 0
    /\ tmap = [full |-> FALSE, rows |-> <<>>, cols |-> <<>>, x |-> <<>>]
    /\ ds = NoTable /\ gene_set_scores = NoTable
    /\ sampled_indices = [bound |-> FALSE, idx |-> <<>>]
    /\ traces = <<>> /\ pvecs = <<>> /\ vanished = {}
    /\ calls = 1
    /\ read_log = [k \in DOMAIN transport_maps |-> [reads |-> 0, hits |-> 0]]

\* every chain up to MaxChain maps, every anchor time (one of them absent from
\* the chain), every list of cell sets; no auxiliary table
InitCore ==
    /\ transport_maps \in Chains(MaxCells, MaxChain, MapKinds, {0, 1})
    /\ time \in 0..(ChainLen(transport_maps) + 1)
    /\ \E names \in NameSeqs(MaxSets) : cell_set_ds_in = MkCellSets(names, time, MaxCells)
    /\ unaligned_ds = NoTable /\ unaligned_gene_set_scores = NoTable
    /\ sampling_loader = FALSE
    /\ rng = 0

\* chains of one kind of map, with auxiliary tables, with and without a
\* sampling loader
InitAux ==
    /\ \E kind \in MapKinds :
          transport_maps \in Chains(MaxCells, MaxChain, {kind}, {0, 1})
    /\ time \in 0..(ChainLen(transport_maps) + 1)
    /\ \E names \in {<<>>, <<"first">>, <<"extra">>, <<"first", "mid">>} :
          cell_set_ds_in = MkCellSets(names, time, MaxCells)
    /\ \E dk \in {"none", "full", "rev", "single"}, gk \in {"none", "full", "single"} :
          /\ ~(dk = "none" /\ gk = "none")
          /\ unaligned_ds = AuxDataset(dk, ChainLen(transport_maps), MaxCells)
          /\ unaligned_gene_set_scores =
                 AuxScores(gk, ChainLen(transport_maps), MaxCells)
    /\ \/ sampling_loader = FALSE /\ rng \in 0..MaxSeed
       \/ sampling_loader = TRUE /\ rng = 0

\* one wide map
InitWide ==
    /\ \E n \in (MaxCells + 1)..MaxWide :
          /\ transport_maps \in Chains(n, 1, {"ones", "skew"}, {0})
          /\ time \in 0..1
          /\ cell_set_ds_in = MkCellSets(<<"first">>, time, n)
    /\ unaligned_ds = NoTable /\ unaligned_gene_set_scores = NoTable
    /\ sampling_loader = FALSE
    /\ rng = 0

Init == (InitCore \/ InitAux \/ InitWide) /\ InitLocals

(***************************************************************************)
(* Lines 158-173: the anchor lookup and the walks to run                   *)
(***************************************************************************)
\* the last index k with transport_maps[k][key] == time, None without one
IndexOf(maps, key, tm) ==
    LET hits == {k \in DOMAIN maps : maps[k][key] = tm}
    IN  IF hits = {} THEN None ELSE CHOOSE k \in hits : \A h \in hits : h <= k

Ranges(maps, i1, i2) ==
    (IF i2 # None THEN <<[backward |-> TRUE, range |-> RangeDown(i2)]>> ELSE <<>>)
    \o (IF i1 # None
        THEN <<[backward |-> FALSE, range |-> RangeUp(i1, ChainLen(maps))]>>
        ELSE <<>>)

FindAnchor ==
    /\ pc = "start"
    /\ t1_index' = IndexOf(transport_maps, "t1", time)
    /\ t2_index' = IndexOf(transport_maps, "t2", time)
    /\ traces' = <<>>
    /\ pvecs' = <<>>
    /\ n_cell_sets' = Len(cell_set_ds.cols)
    /\ ranges' = Ranges(transport_maps, t1_index', t2_index')
    /\ r_pos' = 1 /\ i_pos' = 1
    /\ pc' = "loop"
    /\ UNCHANGED <<inputs, err, result, pvec_array, new_pvec_array, cell_set_index,
                   tmap, ds, gene_set_scores, sampled_indices, vanished, calls,
                   read_log>>

\* from_cmd_line, lines 80-87: time_index is assigned only inside the loop, so
\* when no map has t2 == time line 85 reads an unassigned name and line 86's
\* RuntimeError is never raised.
from_cmd_line_error(maps, tm) ==
    IF \E k \in DOMAIN maps : maps[k].t2 = tm THEN "none" ELSE "UnboundLocalError"

(***************************************************************************)
(* The position of the two nested loops of lines 174 and 177               *)
(***************************************************************************)
back == ranges[r_pos].backward

transport_index == ranges[r_pos].range[i_pos]

\* line 179
cur_t == IF back THEN transport_maps[transport_index].t1
         ELSE transport_maps[transport_index].t2

\* line 180
t_index == IF back THEN t2_index ELSE t1_index

\* line 176
color == IF back THEN "#2c7bb6" ELSE "#d7191c"

AnchorColor == "#ffffbf"

Raise(e) == pc' = "error" /\ err' = e

(***************************************************************************)
(* Lines 197-214: the auxiliary tables on the step's id axis               *)
(***************************************************************************)
\* lines 201-203, 205-207: the rows of unaligned_ds at the positions that
\* get_indexer_for gives for the table's ids within the axis
AlignDs(axis, uds) ==
    LET ds_order == get_indexer_for(axis, uds.rows)
    IN  [some |-> TRUE, rows |-> Take(uds.rows, ds_order), cols |-> uds.cols,
         x |-> Take(uds.x, ds_order)]

AlignDsRaises(axis, uds) ==
    IndexOutOfBounds(get_indexer_for(axis, uds.rows), Len(uds.rows))

\* lines 212, 214: frame.align(table, join='left', axis=0)[1], the table
\* reindexed on the frame's index, NaN rows for the ids it does not hold
align(index, table) ==
    [some |-> TRUE, rows |-> index, cols |-> table.cols,
     x |-> [i \in 1..Len(index) |->
              IF \E p \in 1..Len(table.rows) : table.rows[p] = index[i]
              THEN table.x[CHOOSE p \in 1..Len(table.rows) : table.rows[p] = index[i]]
              ELSE [c \in 1..Len(table.cols) |-> NaN]]]

\* a lookup that takes every entry for one without a stored matrix
CacheMissAlways(tmap_dict) == TRUE

\* lines 190-191: tmap_dict.get('ds') is None
CacheMiss(tmap_dict) == ~tmap_dict.ds

\* lines 178-214
BeginStep ==
    /\ pc = "loop"
    /\ r_pos <= Len(ranges)
    /\ LET tmap_dict == transport_maps[transport_index]
           loaded == IF sampling_loader
                     THEN [full |-> FALSE, rows |-> tmap_dict.rows, cols |-> <<>>,
                           x |-> <<>>]
                     ELSE [full |-> TRUE, rows |-> tmap_dict.rows,
                           cols |-> tmap_dict.cols, x |-> tmap_dict.x]
           axis == IF back THEN loaded.rows ELSE loaded.cols
           no_axis == ~back /\ ~loaded.full
       IN  /\ tmap' = loaded
           /\ transport_maps' =
                 IF ~sampling_loader /\ CacheMiss(tmap_dict)
                 THEN [transport_maps EXCEPT ![transport_index].ds = TRUE]
                 ELSE transport_maps
           /\ read_log' =
                 IF sampling_loader THEN read_log
                 ELSE IF CacheMiss(tmap_dict)
                 THEN [read_log EXCEPT ![transport_index].reads = @ + 1]
                 ELSE [read_log EXCEPT ![transport_index].hits = @ + 1]
           /\ IF (unaligned_ds.some \/ unaligned_gene_set_scores.some) /\ no_axis
              THEN Raise("AttributeError") /\ UNCHANGED <<ds, gene_set_scores>>
              ELSE IF unaligned_ds.some /\ AlignDsRaises(axis, unaligned_ds)
              THEN Raise("IndexError") /\ UNCHANGED <<ds, gene_set_scores>>
              ELSE /\ ds' = IF unaligned_ds.some THEN AlignDs(axis, unaligned_ds)
                            ELSE NoTable
                   /\ gene_set_scores' =
                         IF unaligned_gene_set_scores.some
                         THEN align(axis, unaligned_gene_set_scores)
                         ELSE NoTable
                   /\ pc' = IF transport_index = t_index THEN "init" ELSE "sets"
                   /\ err' = err
    /\ cell_set_index' = 0
    /\ new_pvec_array' = <<>>
    /\ UNCHANGED <<cell_set_ds_in, cell_set_ds, time, unaligned_ds,
                   unaligned_gene_set_scores, sampling_loader, rng, result, t1_index,
                   t2_index, ranges, r_pos, i_pos, n_cell_sets, pvec_array,
                   sampled_indices, traces, pvecs, vanished, calls>>

(***************************************************************************)
(* Lines 94-151: do_sampling                                               *)
(***************************************************************************)
\* ds.x[sampled_indices] / gene_set_scores.iloc[sampled_indices] out of bounds
do_sampling_raises(si, gs, dsv) ==
    /\ si.some
    /\ \/ dsv.some /\ IndexOutOfBounds(si.idx, Len(dsv.x))
       \/ gs.some /\ IndexOutOfBounds(si.idx, Len(gs.x))

\* one trace per column of the table, over the sampled rows (all the rows when
\* sampled_indices is None).  key is line 100 / 127's cell_set_name + column
\* name, kept to tell the records of the sets apart.
TracesOf(table, kind, tm, si, cell_set_name, fill) ==
    IF ~table.some THEN <<>>
    ELSE LET values == IF si.some THEN Take(table.x, si.idx) ELSE table.x
         IN  [g \in 1..Len(table.cols) |->
                 [name |-> tm, type |-> kind, fillcolor |-> fill,
                  y |-> [i \in 1..Len(values) |-> values[i][g]],
                  key |-> <<cell_set_name, table.cols[g]>>]]

do_sampling(res, tm, si, cell_set_name, gs, dsv, fill) ==
    res \o TracesOf(dsv, "box", tm, si, cell_set_name, fill)
        \o TracesOf(gs, "violin", tm, si, cell_set_name, fill)

(***************************************************************************)
(* Lines 215-250: the cell sets at the anchor                              *)
(***************************************************************************)
RECURSIVE Compress(_, _)
Compress(s, mask) ==
    IF s = <<>> THEN <<>>
    ELSE (IF Head(mask) > 0 THEN <<Head(s)>> ELSE <<>>) \o Compress(Tail(s), Tail(mask))

\* line 220 (c is 1-based)
cell_ids_in_set(csd, c) == Compress(csd.rows, csd.x[c])

\* lines 221-222
membership(csd, c, tm, bk) ==
    isin(IF bk THEN tm.cols ELSE tm.rows, cell_ids_in_set(csd, c))

\* line 224
Keeps(csd, c, tm, bk) == Sum(membership(csd, c, tm, bk)) > 0

\* lines 232-235
AnchorDs(uds, ids) ==
    IF ~uds.some THEN NoTable
    ELSE LET ds0_order == get_indexer_for(uds.rows, ids)
         IN  [some |-> TRUE, rows |-> Take(uds.rows, ds0_order), cols |-> uds.cols,
              x |-> Take(uds.x, ds0_order)]

\* lines 237-238
AnchorScores(ugs, ids) == IF ~ugs.some THEN NoTable ELSE align(ids, ugs)

\* lines 228-241 for the sets 1..c in turn: the anchor's records
AnchorTraces(csd, res, tm, bk) ==
    LET f[c \in 0..Len(csd.cols)] ==
            IF c = 0 THEN res
            ELSE IF bk /\ Keeps(csd, c, tm, bk)
            THEN do_sampling(f[c - 1], time, NoIndices, csd.cols[c],
                             AnchorScores(unaligned_gene_set_scores,
                                          cell_ids_in_set(csd, c)),
                             AnchorDs(unaligned_ds, cell_ids_in_set(csd, c)),
                             AnchorColor)
            ELSE f[c - 1]
    IN  f[Len(csd.cols)]

\* lines 243-244: the columns of the kept sets, in their order
KeepSets(csd, tm, bk) ==
    LET mask == [c \in 1..Len(csd.cols) |-> IF Keeps(csd, c, tm, bk) THEN 1 ELSE 0]
    IN  [rows |-> csd.rows, cols |-> Compress(csd.cols, mask),
         x |-> Compress(csd.x, mask)]

\* lines 217-226: the indicator vector of every kept set
InitialPvecs(csd, tm, bk) ==
    LET mask == [c \in 1..Len(csd.cols) |-> IF Keeps(csd, c, tm, bk) THEN 1 ELSE 0]
    IN  Compress([c \in 1..Len(csd.cols) |->
                     [num |-> membership(csd, c, tm, bk), den |-> 1]], mask)

\* the identity test of line 249 on an integer object that is not the interned 0
NoCellSetsNotInterned(n) == FALSE

\* line 249: n_cell_sets is 0
NoCellSets(n) == n = 0

InitWalk ==
    /\ pc = "init"
    /\ IF sampling_loader
       THEN UNCHANGED <<cell_set_ds, pvec_array, traces>>
       ELSE /\ pvec_array' = InitialPvecs(cell_set_ds, tmap, back)
            /\ traces' = AnchorTraces(cell_set_ds, traces, tmap, back)
            /\ cell_set_ds' = KeepSets(cell_set_ds, tmap, back)
    /\ n_cell_sets' = Len(cell_set_ds'.cols)
    /\ IF NoCellSets(n_cell_sets')
       THEN Raise("No cell sets")
       ELSE pc' = "sets" /\ err' = err
    /\ UNCHANGED <<transport_maps, cell_set_ds_in, time, unaligned_ds,
                   unaligned_gene_set_scores,
                   sampling_loader, rng, result, t1_index, t2_index, ranges, r_pos,
                   i_pos, new_pvec_array, cell_set_index, tmap, ds, gene_set_scores,
                   sampled_indices, pvecs, vanished, calls, read_log>>

(***************************************************************************)
(* Lines 252-273: one cell set at one step                                 *)
(***************************************************************************)
\* lines 254-258
Propagate(tm, v, bk) == IF bk THEN DotBack(tm.x, v) ELSE DotFwd(tm.x, v)

\* numpy's dot raises ValueError when the shapes do not line up
ShapeMismatch(tm, v, bk) ==
    Len(v.num) # (IF bk THEN Len(tm.x[1]) ELSE Len(tm.x))

\* line 261; back and set (the walk and the cell set's name) are bookkeeping
PvecRecord(v, tm, bk, cell_set_name) ==
    [v |-> v,
     entropy |-> IF IsNaN(v) THEN [nan |-> TRUE, ceil |-> 0]
                 ELSE [nan |-> FALSE, ceil |-> n_choose_of(v)],
     t |-> tm, back |-> bk, set |-> cell_set_name]

PropagateSet ==
    /\ pc = "sets"
    /\ cell_set_index < n_cell_sets
    /\ LET cell_set_name == cell_set_ds.cols[cell_set_index + 1]
       IN
       IF sampling_loader
       THEN \* line 270 reads sampled_indices, which nothing has assigned
            /\ IF ~sampled_indices.bound
               THEN Raise("UnboundLocalError") /\ UNCHANGED <<traces, cell_set_index>>
               ELSE /\ traces' = do_sampling(traces, cur_t,
                                             [some |-> TRUE, idx |-> sampled_indices.idx],
                                             cell_set_name, gene_set_scores, ds, color)
                    /\ cell_set_index' = cell_set_index + 1
                    /\ UNCHANGED <<pc, err>>
            /\ UNCHANGED <<pvecs, rng, sampled_indices, new_pvec_array, vanished>>
       ELSE
       LET v0 == pvec_array[cell_set_index + 1]
       IN
       IF ShapeMismatch(tmap, v0, back)
       THEN /\ Raise("ValueError")
            /\ UNCHANGED <<traces, cell_set_index, pvecs, rng, sampled_indices,
                           new_pvec_array, vanished>>
       ELSE
       LET raw == Propagate(tmap, v0, back)
           v == Normalize(raw)
           rec == PvecRecord(v, cur_t, back, cell_set_name)
       IN
       /\ pvecs' = Append(pvecs, rec)
       /\ vanished' = IF IsNaN(raw) \/ Sum(raw.num) = 0
                      THEN vanished \cup {<<back, cell_set_name>>}
                      ELSE vanished
       /\ IF rec.entropy.nan
          THEN \* line 262: int(np.ceil(nan))
               /\ Raise("ValueError")
               /\ UNCHANGED <<traces, cell_set_index, rng, sampled_indices,
                              new_pvec_array>>
          ELSE LET n_choose == rec.entropy.ceil
                   drawn == RandomChoice(v, n_choose, rng)
                   si == [some |-> TRUE, idx |-> drawn]
               IN  /\ sampled_indices' = [bound |-> TRUE, idx |-> drawn]
                   /\ rng' = (rng + n_choose) % (MaxSeed + 1)
                   /\ IF do_sampling_raises(si, gene_set_scores, ds)
                      THEN /\ Raise("IndexError")
                           /\ UNCHANGED <<traces, cell_set_index, new_pvec_array>>
                      ELSE /\ traces' = do_sampling(traces, cur_t, si, cell_set_name,
                                                    gene_set_scores, ds, color)
                           /\ new_pvec_array' = Append(new_pvec_array, v)
                           /\ cell_set_index' = cell_set_index + 1
                           /\ UNCHANGED <<pc, err>>
    /\ UNCHANGED <<transport_maps, cell_set_ds_in, cell_set_ds, time, unaligned_ds,
                   unaligned_gene_set_scores, sampling_loader, result, t1_index,
                   t2_index, ranges, r_pos, i_pos, n_cell_sets, pvec_array, tmap, ds,
                   gene_set_scores, calls, read_log>>

\* line 274, then the next transport_index of the walk or the next walk
EndStep ==
    /\ pc = "sets"
    /\ cell_set_index = n_cell_sets
    /\ pvec_array' = new_pvec_array
    /\ IF i_pos < Len(ranges[r_pos].range)
       THEN i_pos' = i_pos + 1 /\ r_pos' = r_pos
       ELSE i_pos' = 1 /\ r_pos' = r_pos + 1
    /\ pc' = "loop"
    /\ UNCHANGED <<inputs, err, result, t1_index, t2_index, ranges, n_cell_sets,
                   new_pvec_array, cell_set_index, tmap, ds, gene_set_scores,
                   sampled_indices, traces, pvecs, vanished, calls, read_log>>

\* line 276
Return ==
    /\ pc = "loop"
    /\ r_pos > Len(ranges)
    /\ result' = [some |-> TRUE, traces |-> traces, pvecs |-> pvecs]
    /\ pc' = "done"
    /\ UNCHANGED <<inputs, err, t1_index, t2_index, ranges, r_pos, i_pos, n_cell_sets,
                   pvec_array, new_pvec_array, cell_set_index, tmap, ds,
                   gene_set_scores, sampled_indices, traces, pvecs, vanished, calls,
                   read_log>>

Next ==
    \/ FindAnchor
    \/ BeginStep
    \/ InitWalk
    \/ PropagateSet
    \/ EndStep
    \/ Return

Spec == Init /\ [][Next]_vars

(***************************************************************************)
(* Several calls of compute on one chain, without a sampling loader        *)
(***************************************************************************)
\* the maps of a chain in the opposite order, as a caller that did not sort
\* them passes it
Unsorted(maps) == [k \in DOMAIN maps |-> maps[ChainLen(maps) - 1 - k]]

CallChains ==
    LET sorted == Chains(MaxCells, MaxChain, {"ones", "corner"}, {0})
    IN  sorted \cup {Unsorted(maps) : maps \in sorted}

CallSets == {<<"first">>, <<"mid">>}

InitCalls ==
    /\ transport_maps \in CallChains
    /\ time \in 0..(ChainLen(transport_maps) + 1)
    /\ \E names \in CallSets : cell_set_ds_in = MkCellSets(names, time, MaxCells)
    /\ unaligned_ds = NoTable /\ unaligned_gene_set_scores = NoTable
    /\ sampling_loader = FALSE
    /\ rng = 0
    /\ InitLocals

\* lines 154-155: after a call has returned or raised, the caller calls compute
\* again with the same transport_maps list, another time and other cell sets;
\* the list's entries keep what the earlier calls stored on them
CallAgain ==
    /\ pc \in {"done", "error"}
    /\ calls < MaxCalls
    /\ calls' = calls + 1
    /\ time' \in 0..(ChainLen(transport_maps) + 1)
    /\ \E names \in CallSets : cell_set_ds_in' = MkCellSets(names, time', MaxCells)
    /\ cell_set_ds' = cell_set_ds_in'
    /\ pc' = "start" /\ err' = "none" /\ result' = [some |-> FALSE]
    /\ t1_index' = None /\ t2_index' = None
    /\ ranges' = <<>> /\ r_pos' = 1 /\ i_pos' = 1
    /\ n_cell_sets' = 0 /\ pvec_array' = <<>> /\ new_pvec_array' = <<>>
    /\ cell_set_index' = 0
    /\ tmap' = [full |-> FALSE, rows |-> <<>>, cols |-> <<>>, x |-> <<>>]
    /\ ds' = NoTable /\ gene_set_scores' = NoTable
    /\ sampled_indices' = [bound |-> FALSE, idx |-> <<>>]
    /\ traces' = <<>> /\ pvecs' = <<>> /\ vanished' = {}
    /\ UNCHANGED <<transport_maps, unaligned_ds, unaligned_gene_set_scores,
                   sampling_loader, rng, read_log>>

NextCalls ==
    \/ Next
    \/ CallAgain

SpecCalls == InitCalls /\ [][NextCalls]_vars

(***************************************************************************)
(* Claims                                                                  *)
(***************************************************************************)
\* the anchor time is the t1 or the t2 of some map of the chain
AnchorFound ==
    \E k \in DOMAIN transport_maps :
        transport_maps[k].t1 = time \/ transport_maps[k].t2 = time

IsProbabilityVector(v) ==
    /\ v.den > 0
    /\ \A i \in 1..Len(v.num) : v.num[i] >= 0
    /\ Sum(v.num) = v.den

\* C1: every vector recorded in pvecs, in either walk and at every step, has
\* entries >= 0 that sum to 1.
C1_RecordedVectorsNormalized ==
    \A i \in 1..Len(pvecs) : IsProbabilityVector(pvecs[i].v)

\* the id axis a step aligns on: the map's row ids walking backward, its
\* column ids walking forward
TargetIds == IF back THEN transport_maps[transport_index].rows
             ELSE transport_maps[transport_index].cols

\* table is the left join of source on ids: one row per id, in that order,
\* the source's values for an id it holds and the placeholder otherwise
IsLeftJoin(table, source, ids) ==
    /\ Len(table.x) = Len(ids)
    /\ table.rows = ids
    /\ \A i \in 1..Len(ids) :
          IF \E p \in 1..Len(source.rows) : source.rows[p] = ids[i]
          THEN \E p \in 1..Len(source.rows) :
                  source.rows[p] = ids[i] /\ table.x[i] = source.x[p]
          ELSE \A c \in 1..Len(table.x[i]) : table.x[i][c] = NaN

\* C2: at every step the aligned measurement matrix and the aligned gene-set
\* score table are left joins on the step's target ids, and aligning raises
\* no error.
C2_AlignedOnTargetIds ==
    /\ pc \in {"init", "sets"} =>
          /\ unaligned_ds.some => ds.some /\ IsLeftJoin(ds, unaligned_ds, TargetIds)
          /\ unaligned_gene_set_scores.some =>
                /\ gene_set_scores.some
                /\ IsLeftJoin(gene_set_scores, unaligned_gene_set_scores, TargetIds)
    /\ ~sampling_loader => err # "IndexError"

\* the part of C2 about the gene-set score table alone
ScoresAlignedOnTargetIds ==
    (pc \in {"init", "sets"} /\ unaligned_gene_set_scores.some) =>
        IsLeftJoin(gene_set_scores, unaligned_gene_set_scores, TargetIds)

\* C3: with an anchor time that is no map's t1 or t2 the run fails with a
\* time-not-found error and returns nothing.
C3_AbsentAnchorFails ==
    (~AnchorFound /\ pc \in {"done", "error"}) =>
        /\ pc = "error"
        /\ err \in {"TimepointNotFound", "RuntimeError"}
        /\ ~result.some

\* C4 as stated: the empty-cell-set failure comes before any probability vector
\* has been computed or recorded, and nothing is returned.
C4_FailsBeforeAnyPropagation ==
    /\ pc = "sets" => n_cell_sets > 0
    /\ err = "No cell sets" => pvecs = <<>> /\ ~result.some

\* C4 amended: with zero surviving sets at a walk's initialization the run
\* fails with 'No cell sets' before any step of that walk: no vector of that
\* walk has been recorded (none at all when it is the first walk) and
\* nothing is returned; propagation is never entered with zero sets.
C4_FailsBeforeTheWalkPropagates ==
    /\ pc = "sets" => n_cell_sets > 0
    /\ err = "No cell sets" =>
          /\ pc = "error"
          /\ n_cell_sets = 0
          /\ ~result.some
          /\ \A i \in 1..Len(pvecs) : pvecs[i].back # back
          /\ r_pos = 1 => pvecs = <<>>

\* the forward walk's initialization fails after the backward walk has run
C4_Witness ==
    /\ err = "No cell sets"
    /\ r_pos = 2
    /\ pvecs # <<>>

\* C5: a vector of total mass zero does not abort the run and no NaN vector
\* is recorded.
C5_DegenerateIsIsolated ==
    vanished # {} =>
        /\ pc # "error"
        /\ \A i \in 1..Len(pvecs) : ~pvecs[i].entropy.nan

ColorOf(bk) == IF bk THEN "#2c7bb6" ELSE "#d7191c"

\* C6: within a walk, a cell set whose propagated vector had total mass zero
\* never again yields a normalized vector, an entropy value or a sample.
C6_VanishedStaysVanished ==
    [][\A p \in vanished :
          /\ \A i \in (Len(pvecs) + 1)..Len(pvecs') :
                (pvecs'[i].back = p[1] /\ pvecs'[i].set = p[2]) =>
                    IsNaN(pvecs'[i].v) /\ pvecs'[i].entropy.nan
          /\ \A i \in (Len(traces) + 1)..Len(traces') :
                ~(traces'[i].key[1] = p[2] /\ traces'[i].fillcolor = ColorOf(p[1]))
          /\ p \in vanished']_vars

\* a cell set has vanished at a step that is not the last of its walk
C6_Witness ==
    /\ r_pos <= Len(ranges)
    /\ i_pos < Len(ranges[r_pos].range)
    /\ \E p \in vanished : p[1] = back

\* C7: each walk starts from the cell-set matrix the caller passed: its
\* surviving sets and indicator vectors are those of that walk run alone.
C7_WalksIndependent ==
    (pc = "sets" /\ ~sampling_loader /\ i_pos = 1 /\ cell_set_index = 0) =>
        /\ cell_set_ds = KeepSets(cell_set_ds_in, tmap, back)
        /\ pvec_array = InitialPvecs(cell_set_ds_in, tmap, back)

NumAuxColumns == Len(unaligned_ds.cols) + Len(unaligned_gene_set_scores.cols)

AnchorRecordsOf(cell_set_name) ==
    {i \in 1..Len(traces) :
        /\ traces[i].fillcolor = AnchorColor
        /\ traces[i].name = time
        /\ traces[i].key[1] = cell_set_name}

\* C8: a successful run without a sampling loader and with auxiliary data
\* holds, for every surviving cell set, exactly one group of anchor records
\* (one record per auxiliary column) at the anchor time with the anchor
\* marker; the records of every other timepoint carry a walk's marker.
C8_OneAnchorGroupPerSet ==
    (pc = "done" /\ ~sampling_loader /\ AnchorFound /\ NumAuxColumns > 0) =>
        /\ \A c \in 1..Len(cell_set_ds.cols) :
              Cardinality(AnchorRecordsOf(cell_set_ds.cols[c])) = NumAuxColumns
        /\ \A i \in 1..Len(traces) :
              IF traces[i].name = time
              THEN traces[i].fillcolor = AnchorColor
              ELSE traces[i].fillcolor \in {ColorOf(TRUE), ColorOf(FALSE)}

\* C9: the draw for a normalized vector v of length n has
\* k = ceil(exp(H(v))) positions with 1 <= k <= n (1 for a one-hot v, n for a
\* uniform v), each in 0..n-1.
C9_SampleCountWithinLength ==
    (sampled_indices.bound /\ pvecs # <<>> /\ ~pvecs[Len(pvecs)].entropy.nan) =>
        LET v == pvecs[Len(pvecs)].v
            n == Len(v.num)
            k == Len(sampled_indices.idx)
        IN  /\ k = ExactCeil(v)
            /\ 1 <= k /\ k <= n
            /\ Cardinality(Support(v)) = 1 => k = 1
            /\ (IsUniform(v) /\ Cardinality(Support(v)) = n) => k = n
            /\ \A i \in 1..k : sampled_indices.idx[i] \in 0..(n - 1)

\* C10: with a sampling loader the run completes without error (given an
\* anchor in the chain and at least one cell set).
C10_LoaderRunCompletes ==
    (sampling_loader /\ AnchorFound /\ Len(cell_set_ds_in.cols) > 0) => err = "none"

\* the map of chain index k as a step without a sampling loader holds it
LoadedMap(k) ==
    [full |-> TRUE, rows |-> transport_maps[k].rows, cols |-> transport_maps[k].cols,
     x |-> transport_maps[k].x]

\* the cell sets left after the initialization of the p-th walk of ranges
SurvivorsOf(p) ==
    LET first == KeepSets(cell_set_ds_in, LoadedMap(ranges[1].range[1]),
                          ranges[1].backward)
    IN  IF p = 1 THEN first
        ELSE KeepSets(first, LoadedMap(ranges[p].range[1]), ranges[p].backward)

\* the timepoint a walk records for chain index k
WalkTime(bk, k) == IF bk THEN transport_maps[k].t1 ELSE transport_maps[k].t2

\* one <<timepoint, cell set>> per surviving set per map of the p-th walk, the
\* maps in the walk's order
ExpectedVisits(p) ==
    LET names == SurvivorsOf(p).cols
        ns == Len(names)
        rg == ranges[p].range
    IN  [q \in 1..(Len(rg) * ns) |->
            <<WalkTime(ranges[p].backward, rg[((q - 1) \div ns) + 1]),
              names[((q - 1) % ns) + 1]>>]

\* the <<timepoint, cell set>> of the vectors one walk has appended to pvecs
RecordedVisits(bk) ==
    LET mine == SelectSeq(pvecs, LAMBDA r : r.back = bk)
    IN  [q \in 1..Len(mine) |-> <<mine[q].t, mine[q].set>>]

IsPrefix(s, t) == Len(s) <= Len(t) /\ \A q \in 1..Len(s) : s[q] = t[q]

\* the backward walk is i, i-1, ..., 0 with chain[i].t2 the anchor, the forward
\* walk j, j+1, ..., len-1 with chain[j].t1 the anchor, and the map of a step
\* is a map of the chain
WalksStayInChain ==
    /\ \A p \in 1..Len(ranges) :
          LET rg == ranges[p].range
          IN  /\ Len(rg) >= 1
              /\ \A q \in 1..Len(rg) : rg[q] \in 0..(ChainLen(transport_maps) - 1)
              /\ IF ranges[p].backward
                 THEN /\ transport_maps[rg[1]].t2 = time
                      /\ rg[Len(rg)] = 0
                      /\ \A q \in 1..(Len(rg) - 1) : rg[q + 1] = rg[q] - 1
                 ELSE /\ transport_maps[rg[1]].t1 = time
                      /\ rg[Len(rg)] = ChainLen(transport_maps) - 1
                      /\ \A q \in 1..(Len(rg) - 1) : rg[q + 1] = rg[q] + 1
    /\ pc \in {"init", "sets"} =>
          /\ transport_index \in 0..(ChainLen(transport_maps) - 1)
          /\ tmap.rows = transport_maps[transport_index].rows

\* what a walk has recorded so far is an initial part of its expected visits,
\* and its timepoints never move back toward the anchor
WalkRecordsInOrder ==
    /\ \A p \in 1..Len(ranges) :
          IsPrefix(RecordedVisits(ranges[p].backward), ExpectedVisits(p))
    /\ \A i, j \in 1..Len(pvecs) :
          (i < j /\ pvecs[i].back = pvecs[j].back) =>
              IF pvecs[i].back
              THEN pvecs[j].t <= pvecs[i].t /\ pvecs[i].t < time
              ELSE pvecs[i].t <= pvecs[j].t /\ time < pvecs[i].t

\* every walk has recorded all of its expected visits
WalkRecordsComplete ==
    \A p \in 1..Len(ranges) :
        RecordedVisits(ranges[p].backward) = ExpectedVisits(p)

\* C11: each walk ends having visited every map from the anchor's index to its
\* end of the chain, once each and in order, recording the walk's timepoint
\* of each map with one vector per surviving cell set; no index outside the
\* chain is used and the recorded timepoints move away from the anchor.
C11_WalksVisitEveryMap ==
    /\ WalksStayInChain
    /\ WalkRecordsInOrder
    /\ (pc \in {"done", "error"} /\ err # "No cell sets") => WalkRecordsComplete

\* the same for the runs that return
ReturnedWalksVisitEveryMap ==
    /\ WalksStayInChain
    /\ WalkRecordsInOrder
    /\ pc = "done" => WalkRecordsComplete

\* a run returns after a walk over more than one map
ReturnedLongWalk ==
    /\ pc = "done"
    /\ \E p \in 1..Len(ranges) : Len(ranges[p].range) > 1 /\ Len(ExpectedVisits(p)) > 1

\* C12: over the calls of compute on one chain without a sampling loader the
\* map of every chain index is read from storage at most once: an entry holds
\* a stored matrix exactly when it has been read once, a visit that finds a
\* stored matrix reads nothing, and no step clears or changes a stored matrix.
C12_MapReadAtMostOnce ==
    /\ [](~sampling_loader =>
            \A k \in DOMAIN transport_maps :
                /\ read_log[k].reads <= 1
                /\ transport_maps[k].ds <=> read_log[k].reads = 1
                /\ read_log[k].hits > 0 => read_log[k].reads = 1)
    /\ [][\A k \in DOMAIN transport_maps :
              /\ transport_maps[k].ds => transport_maps'[k] = transport_maps[k]
              /\ read_log'[k].hits > read_log[k].hits =>
                    read_log'[k].reads = read_log[k].reads]_vars

\* a later call has visited an index whose matrix an earlier call stored
C12_Witness ==
    /\ calls > 1
    /\ pc \in {"init", "sets"}
    /\ read_log[transport_index].reads = 1
    /\ read_log[transport_index].hits >= 1

\* one call has visited the same index in both directions
RevisitedWithinOneCall ==
    /\ calls = 1
    /\ \E k \in DOMAIN transport_maps : read_log[k].hits >= 1

====
